---- MODULE Spec2Model ----
(***************************************************************************)
(* A model of the view-count simulation engine of src/simulate.py: the     *)
(* per-post seeding, the 64-bit linear-congruential generator, the         *)
(* hour-weighted increment, the clamp policy, the row writer and the tick  *)
(* scheduler.                                                              *)
(*                                                                         *)
(* Numbers.  The generator state is a 64-bit unsigned integer; it is kept  *)
(* as eight base-256 limbs, least significant first, so that the           *)
(* recurrence is computed modulo 2^64 exactly.  Python's float arithmetic  *)
(* (state / 2**64, the product with the span) is IEEE-754 binary64 with    *)
(* round-to-nearest-even; it is computed here on bit sequences, least      *)
(* significant bit first, keeping 53 significant bits.                     *)
(***************************************************************************)
EXTENDS Integers, Sequences, FiniteSets, TLC

(***************************************************************************)
(* State                                                                   *)
(***************************************************************************)

VARIABLES
    seed,          \* the global seed of the run
    posts,         \* the rows of posts.csv
    engine,        \* engine.yml
    pc,            \* "start", "post", "loop", "done", "failed"
    tick,          \* the parsed tick: fixed duration, or min and max
    weights_norm,  \* normalize_weights(engine.hourly_weights)
    out_open,      \* out_f is open
    out,           \* the rows written after the header
    row_no,        \* the No of the next row
    i,             \* index in posts of the current post
    rng,           \* the state of the current post's generator
    target,        \* the current post's drawn target
    cum,           \* the current post's running total
    t,             \* the current post's simulated time
    k,             \* iterations of the current post's loop begun
    summary,       \* per post of this run: target, rows, iterations, how it ended
    run,           \* 1 for the first run of the session, 2 for the second
    prev           \* the posts, rows and summary of the first run

vars ==
    <<seed, posts, engine, pc, tick, weights_norm, out_open, out, row_no,
      i, rng, target, cum, t, k, summary, run, prev>>

(***************************************************************************)
(* Multi-precision naturals                                                *)
(***************************************************************************)

\* Number of base-256 limbs of the generator state: the 0xFFFFFFFFFFFFFFFF mask.
StateLimbs == 8

\* Significant bits of a Python float (IEEE-754 binary64).
FloatMantissa == 53

\* Bits of the divisor 2**64 in state / 2**64.
StateBits == 64

Pow2(n) == 2 ^ n

\* Sum over i_ = 1..k_ of a[i_] * b[k_ + 1 - i_]: one column of the long product.
RECURSIVE Column(_, _, _, _)
Column(a, b, k_, i_) ==
    IF i_ > k_ THEN 0 ELSE a[i_] * b[k_ + 1 - i_] + Column(a, b, k_, i_ + 1)

\* Limbs k_..StateLimbs of a * b + carry, truncated to StateLimbs limbs.
RECURSIVE MulAddLimbs(_, _, _, _)
MulAddLimbs(a, b, k_, carry) ==
    IF k_ > StateLimbs THEN << >>
    ELSE LET col == carry + Column(a, b, k_, 1)
         IN  <<col % 256>> \o MulAddLimbs(a, b, k_ + 1, col \div 256)

\* The bits of a limb sequence, least significant first.
LimbBits(a) ==
    [i_ \in 1..(8 * Len(a)) |-> (a[((i_ - 1) \div 8) + 1] \div Pow2((i_ - 1) % 8)) % 2]

\* Position of the highest set bit among bits 1..i_ (0 when there is none).
RECURSIVE TopBit(_, _)
TopBit(bits, i_) ==
    IF i_ = 0 THEN 0 ELSE IF bits[i_] = 1 THEN i_ ELSE TopBit(bits, i_ - 1)

BitLength(bits) == TopBit(bits, Len(bits))

\* bits * k_ + carry for a small natural k_, as a bit sequence.
RECURSIVE MulSmall(_, _, _, _)
MulSmall(bits, k_, i_, carry) ==
    IF i_ > Len(bits)
    THEN IF carry = 0 THEN << >>
         ELSE <<carry % 2>> \o MulSmall(bits, k_, i_, carry \div 2)
    ELSE LET d == bits[i_] * k_ + carry
         IN  <<d % 2>> \o MulSmall(bits, k_, i_ + 1, d \div 2)

\* bits + 1.
RECURSIVE Incr(_, _)
Incr(bits, i_) ==
    IF i_ > Len(bits) THEN bits \o <<1>>
    ELSE IF bits[i_] = 0 THEN [bits EXCEPT ![i_] = 1]
    ELSE Incr([bits EXCEPT ![i_] = 0], i_ + 1)

\* The value of a short bit sequence as an integer.
RECURSIVE BitsValue(_, _)
BitsValue(bits, i_) ==
    IF i_ > Len(bits) THEN 0 ELSE bits[i_] + 2 * BitsValue(bits, i_ + 1)

(***************************************************************************)
(* binary64 values m * 2^e, m a bit sequence of at most 53 significant     *)
(* bits (54 only for the power of two a round-up carries into).            *)
(***************************************************************************)

\* The natural `bits` of bit length n, times 2^e, rounded to 53 significant
\* bits: to nearest, ties to even.
RoundBits(bits, e, n) ==
    LET g == n - FloatMantissa
    IN  IF g <= 0 THEN [m |-> SubSeq(bits, 1, n), e |-> e]
        ELSE IF bits[g] = 1 /\ (bits[g + 1] = 1 \/ \E j \in 1..(g - 1) : bits[j] = 1)
        THEN [m |-> Incr(SubSeq(bits, g + 1, n), 1), e |-> e + g]
        ELSE [m |-> SubSeq(bits, g + 1, n), e |-> e + g]

RoundFloat(bits, e) == RoundBits(bits, e, BitLength(bits))

\* int(x) of a non-negative float x = m * 2^e: truncation.
FloatToInt(x) ==
    IF x.e >= 0 THEN BitsValue(x.m, 1) * Pow2(x.e)
    ELSE IF -x.e >= Len(x.m) THEN 0
    ELSE BitsValue(SubSeq(x.m, 1 - x.e, Len(x.m)), 1)

\* x * k_ for a float x and a small natural k_, rounded.
FloatMulInt(x, k_) == RoundFloat(MulSmall(x.m, k_, 1, 0), x.e)

\* The bits of a small natural, least significant first.
RECURSIVE IntBits(_)
IntBits(n) == IF n = 0 THEN << >> ELSE <<n % 2>> \o IntBits(n \div 2)

\* a + b on bit sequences.
RECURSIVE AddBits(_, _, _, _)
AddBits(a, b, i_, carry) ==
    IF i_ > Len(a) /\ i_ > Len(b)
    THEN IF carry = 0 THEN << >> ELSE <<carry>>
    ELSE LET d == (IF i_ <= Len(a) THEN a[i_] ELSE 0)
                  + (IF i_ <= Len(b) THEN b[i_] ELSE 0) + carry
         IN  <<d % 2>> \o AddBits(a, b, i_ + 1, d \div 2)

\* n zero bits.
Zeros(n) == [i_ \in 1..n |-> 0]

\* k_ + x for a small natural k_ and a float x with a negative exponent, rounded.
FloatAddInt(k_, x) ==
    RoundFloat(AddBits(Zeros(-x.e) \o IntBits(k_), x.m, 1, 0), x.e)

(***************************************************************************)
(* The pseudo-random generator: class RNG of rng_from_seed                 *)
(***************************************************************************)

\* 6364136223846793005 = 0x5851F42D4C957F2D, least significant limb first.
Multiplier == <<45, 127, 149, 76, 45, 244, 81, 88>>

\* 0xDEADBEEFCAFEBABE, the state a zero seed is replaced by.
ZeroSeedState == <<190, 186, 254, 202, 239, 190, 173, 222>>

\* int.from_bytes(h, "big"): the first byte is the most significant limb.
FromBytesBig(h) == [i_ \in 1..Len(h) |-> h[Len(h) + 1 - i_]]

\* One generator for the whole run: seeded for the first post, and left
\* running for the posts after it.
SharedGenerator(seed_int) ==
    IF i > 1 THEN rng
    ELSE IF \A i_ \in 1..StateLimbs : seed_int[i_] = 0 THEN ZeroSeedState
    ELSE SubSeq(seed_int, 1, StateLimbs)

\* RNG.__init__: (seed & 0xFFFFFFFFFFFFFFFF) or 0xDEADBEEFCAFEBABE.
rng_from_seed(seed_int) ==
    LET masked == SubSeq(seed_int, 1, StateLimbs)
    IN  IF \A i_ \in 1..StateLimbs : masked[i_] = 0 THEN ZeroSeedState ELSE masked

\* self.state = (6364136223846793005 * self.state + 1) & 0xFFFFFFFFFFFFFFFF
Advance(state) == MulAddLimbs(Multiplier, state, 1, 1)

\* self.state / 2**64 as a float.
Fraction(state) == RoundFloat(LimbBits(state), -StateBits)

\* RNG.randint_inclusive(a, b) on the state already advanced:
\* a + int((self.state / 2**64) * span); int() truncates toward zero.
RandintValue(state, a, b) ==
    LET span == b - a + 1
    IN  IF span >= 0
        THEN a + FloatToInt(FloatMulInt(Fraction(state), span))
        ELSE a - FloatToInt(FloatMulInt(Fraction(state), -span))

Drawn(s, a, b) == [state |-> s, value |-> RandintValue(s, a, b)]

\* RNG.randint_inclusive: the new state and the value returned.
randint_inclusive(state, a, b) == Drawn(Advance(state), a, b)

DrawnFloat(s) == [state |-> s, value |-> Fraction(s)]

\* RNG.rand: the new state and the float returned.
rand(state) == DrawnFloat(Advance(state))

(***************************************************************************)
(* Seed derivation: seed_for_post                                          *)
(***************************************************************************)

\* hashlib.sha256(f"{global_seed}|{post_id}|{seed_offset}".encode()).digest()[:8]
\* for the keys the model draws its posts from (the digests are SHA-256's).
Sha256Head(key) ==
    IF key = <<42, "1001", 0>> THEN <<113, 54, 32, 143, 148, 148, 94, 157>> ELSE
    IF key = <<42, "1001", 1>> THEN <<232, 77, 137, 55, 254, 101, 94, 94>> ELSE
    IF key = <<42, "1001", 2>> THEN <<10, 164, 43, 172, 209, 57, 1, 54>> ELSE
    IF key = <<42, "1001", 3>> THEN <<73, 47, 156, 163, 160, 185, 28, 199>> ELSE
    IF key = <<42, "1002", 0>> THEN <<151, 175, 80, 228, 118, 162, 125, 208>> ELSE
    IF key = <<42, "1002", 1>> THEN <<50, 1, 23, 90, 209, 62, 7, 44>> ELSE
    IF key = <<42, "1002", 2>> THEN <<200, 249, 38, 160, 32, 227, 21, 0>> ELSE
    IF key = <<42, "1002", 3>> THEN <<75, 151, 28, 10, 37, 72, 198, 103>> ELSE
    IF key = <<42, "1003", 0>> THEN <<48, 200, 208, 97, 23, 180, 97, 239>> ELSE
    IF key = <<42, "1003", 1>> THEN <<166, 222, 117, 69, 67, 182, 215, 22>> ELSE
    IF key = <<42, "1003", 2>> THEN <<101, 224, 172, 152, 71, 199, 66, 185>> ELSE
    IF key = <<42, "1003", 3>> THEN <<237, 98, 100, 48, 254, 251, 241, 247>> ELSE
    IF key = <<42, "1004", 0>> THEN <<78, 37, 112, 195, 157, 195, 229, 217>> ELSE
    IF key = <<42, "1004", 1>> THEN <<31, 57, 173, 54, 186, 170, 8, 175>> ELSE
    IF key = <<20250916, "1001", 0>> THEN <<60, 151, 203, 158, 103, 233, 245, 194>> ELSE
    IF key = <<20250916, "1001", 1>> THEN <<142, 171, 28, 85, 82, 225, 40, 158>> ELSE
    IF key = <<20250916, "1001", 2>> THEN <<109, 179, 59, 59, 218, 239, 157, 224>> ELSE
    IF key = <<20250916, "1001", 3>> THEN <<191, 82, 221, 229, 145, 26, 166, 222>> ELSE
    IF key = <<20250916, "1002", 0>> THEN <<192, 7, 66, 23, 233, 220, 80, 7>> ELSE
    IF key = <<20250916, "1002", 1>> THEN <<85, 218, 77, 14, 228, 239, 236, 194>> ELSE
    IF key = <<20250916, "1002", 2>> THEN <<131, 49, 75, 63, 89, 201, 122, 83>> ELSE
    IF key = <<20250916, "1002", 3>> THEN <<125, 214, 114, 83, 30, 206, 84, 54>> ELSE
    IF key = <<20250916, "1003", 0>> THEN <<22, 102, 202, 20, 58, 52, 121, 238>> ELSE
    IF key = <<20250916, "1003", 1>> THEN <<203, 155, 64, 84, 196, 235, 166, 214>> ELSE
    IF key = <<20250916, "1003", 2>> THEN <<132, 145, 131, 85, 164, 127, 197, 14>> ELSE
    IF key = <<20250916, "1003", 3>> THEN <<219, 223, 33, 123, 229, 9, 119, 195>> ELSE
    <<0, 0, 0, 0, 0, 0, 0, 0>>

\* seed_for_post: the first 8 digest bytes as a big-endian unsigned integer.
seed_for_post(global_seed, post_id, seed_offset) ==
    FromBytesBig(Sha256Head(<<global_seed, post_id, seed_offset>>))

(***************************************************************************)
(* Durations, weights, timestamps                                          *)
(***************************************************************************)

\* parse_tick with a duration of any other suffix taken as seconds.
parse_tick_seconds_fallback(s) ==
    IF s[2] = "h" THEN <<TRUE, s[1] * 3600>>
    ELSE IF s[2] = "m" THEN <<TRUE, s[1] * 60>>
    ELSE <<TRUE, s[1]>>

\* A duration string "<n><suffix>" is kept as <<n, suffix>>; a timedelta is a
\* number of seconds.  parse_tick: <<TRUE, seconds>>, or <<FALSE, 0>> for the
\* ValueError raised on any other suffix.
parse_tick(s) ==
    IF s[2] = "h" THEN <<TRUE, s[1] * 3600>>
    ELSE IF s[2] = "m" THEN <<TRUE, s[1] * 60>>
    ELSE IF s[2] = "s" THEN <<TRUE, s[1]>>
    ELSE <<FALSE, 0>>

\* sum(float(v) for v in wdict.values())
RECURSIVE SumWeights(_, _)
SumWeights(wdict, keys) ==
    IF keys = {} THEN 0
    ELSE LET k_ == CHOOSE x \in keys : TRUE
         IN  wdict[k_] + SumWeights(wdict, keys \ {k_})

\* A normalized weight v / total is kept as the fraction <<v, total>>.
\* normalize_weights: uniform 1/24 on the 24 hours when the total is not
\* positive, otherwise every key of the input divided by the total.
normalize_weights(wdict) ==
    LET total == SumWeights(wdict, DOMAIN wdict)
    IN  IF total <= 0 THEN [h \in 0..23 |-> <<1, 24>>]
        ELSE [k_ \in DOMAIN wdict |-> <<wdict[k_], total>>]

\* mean_weight_norm: 1.0 / 24.0, as the fraction <<1, 24>>.
mean_weight_norm == <<1, 24>>

\* weights_norm.get(str(hour_local), 1.0/24)
WeightAt(weights, hour) ==
    IF hour \in DOMAIN weights THEN weights[hour] ELSE <<1, 24>>

\* datetime.fromisoformat on "D HH:MM:SS" (the day counted from the first day
\* of the run), as seconds of wall-clock time in the engine's zone.
fromisoformat(s) == s[1] * 86400 + s[2] * 3600 + s[3] * 60 + s[4]

\* t_.astimezone(tz).hour for a time already in the engine's zone.
HourOf(t_) == (t_ \div 3600) % 24

\* isoformat_tz: strftime("%Y-%m-%d %H:%M:%S"), the fields of the string.
isoformat_tz(t_) == <<t_ \div 86400, (t_ \div 3600) % 24, (t_ \div 60) % 60, t_ % 60>>

Min(a, b) == IF a <= b THEN a ELSE b

Max(a, b) == IF a >= b THEN a ELSE b

(***************************************************************************)
(* The loop body of simulate, as functions of the values it reads          *)
(***************************************************************************)

\* inc = int(math.floor(max(0.0, base * (w / MW)))) for a weight w = <<v, total>>.
ScaledInc(base, w) ==
    LET num == base * w[1] * mean_weight_norm[2]
        den == w[2] * mean_weight_norm[1]
    IN  IF num <= 0 THEN 0 ELSE num \div den

\* if system_hour_cap is not None: inc = min(inc, system_hour_cap).
\* The cap is << >> for None and <<c>> for the integer c.
CapInc(inc, cap) == IF cap = << >> THEN inc ELSE Min(inc, cap[1])

\* ClampInc without its last line, inc = min(inc, remaining).
ClampIncNoRemaining(inc, remaining, inc_min, inc_max) ==
    IF remaining <= inc_min THEN remaining
    ELSE Min(Max(inc, inc_min), inc_max)

\* ClampInc without inc = max(inc, inc_min).
ClampIncNoFloor(inc, remaining, inc_min, inc_max) ==
    IF remaining <= inc_min THEN remaining
    ELSE Min(Min(inc, inc_max), remaining)

\* ClampInc with the floor of one view in place of inc = max(inc, inc_min).
ClampIncFloorOne(inc, remaining, inc_min, inc_max) ==
    IF remaining <= inc_min THEN remaining
    ELSE Min(Min(Max(inc, 1), inc_max), remaining)

\* ClampInc with neither the forced final increment nor the floor at inc_min.
ClampIncCeilingOnly(inc, remaining, inc_min, inc_max) ==
    Min(Min(inc, inc_max), remaining)

\* ClampInc without inc = min(inc, inc_max).
ClampIncNoCeiling(inc, remaining, inc_min, inc_max) ==
    IF remaining <= inc_min THEN remaining
    ELSE Min(Max(inc, inc_min), remaining)

\* The clamp policy: the forced final increment, else the bounds, then the
\* remaining amount.
ClampInc(inc, remaining, inc_min, inc_max) ==
    IF remaining <= inc_min THEN remaining
    ELSE Min(Min(Max(inc, inc_min), inc_max), remaining)

\* The drawn part of the step taken off the smaller duration.
StepOfSubtracted(tk, r) ==
    [state |-> r.state,
     step  |-> tk.min - FloatToInt(FloatMulInt(r.value, tk.max - tk.min))]

\* The step to the next tick: the fixed duration, or int() of a float drawn
\* between the two durations.  Returns the generator state with the step.
StepOf(tk, r) ==
    [state |-> r.state,
     step  |-> FloatToInt(FloatAddInt(tk.min, FloatMulInt(r.value, tk.max - tk.min)))]

NextStep(tk, state) ==
    IF tk.fixed THEN [state |-> state, step |-> tk.d] ELSE StepOf(tk, rand(state))

\* The row written whatever the increment.
EmitsRowAlways(inc) == TRUE

\* if inc > 0: the row is written.
EmitsRow(inc) == inc > 0

\* The break taken one view short of the target.
ReachedTargetEarly(c, tgt) == c >= tgt - 1

\* The break taken only past the target: cum > target.
ReachedTargetStrict(c, tgt) == c > tgt

\* if cum >= target: break
ReachedTarget(c, tgt) == c >= tgt

\* The loop bound off by one: range(max_hours + 1).
LoopContinuesInclusive(k_, max_hours) == k_ <= max_hours

\* The loop bound one short: range(max_hours - 1).
LoopContinuesShort(k_, max_hours) == k_ < max_hours - 1

\* for k_ in range(max_hours): another iteration is due.
LoopContinues(k_, max_hours) == k_ < max_hours

\* The counter left where it is.
RowNoKept(n) == n

\* row_no += 1
NextRowNo(n) == n + 1

\* One iteration of the loop for the state (rng, cum, t_) of a post: the values
\* it leaves, whether it wrote a row and whether it left the loop.
\* The iteration after its draw of the base increment (draw) and, when it
\* does not leave the loop, its step to the next tick (nxt).
IterationOf(eng, weights, target_, cum_, t_, draw, nxt) ==
    LET hour_local == HourOf(t_)
        w          == WeightAt(weights, hour_local)
        inc0       == CapInc(ScaledInc(draw.value, w), eng.system_hour_cap)
        remaining  == target_ - cum_
        inc        == ClampInc(inc0, remaining, eng.increment.min, eng.increment.max)
        emit       == remaining > 0 /\ EmitsRow(inc)
        next_cum   == IF emit THEN cum_ + inc ELSE cum_
        brk        == remaining <= 0 \/ (emit /\ ReachedTarget(next_cum, target_))
    IN  [hour  |-> hour_local,
         w     |-> w,
         base  |-> draw.value,
         inc   |-> IF remaining <= 0 THEN inc0 ELSE inc,
         emit  |-> emit,
         cum   |-> next_cum,
         brk   |-> brk,
         why   |-> IF remaining <= 0 THEN "remaining" ELSE "target",
         state |-> IF brk THEN draw.state ELSE nxt.state,
         step  |-> IF brk THEN 0 ELSE nxt.step,
         t     |-> IF brk THEN t_ ELSE t_ + nxt.step]

\* The iteration with its two draws exchanged: the step first, the base
\* increment after it.
IterationStepFirst(eng, weights, tk, target_, state, cum_, t_) ==
    IterationOf(eng, weights, target_, cum_, t_,
                randint_inclusive(NextStep(tk, state).state,
                                  eng.increment.min, eng.increment.max),
                NextStep(tk, state))

AfterDraw(eng, weights, tk, target_, cum_, t_, draw) ==
    IterationOf(eng, weights, target_, cum_, t_, draw, NextStep(tk, draw.state))

Iteration(eng, weights, tk, target_, state, cum_, t_) ==
    AfterDraw(eng, weights, tk, target_, cum_, t_,
              randint_inclusive(state, eng.increment.min, eng.increment.max))

(***************************************************************************)
(* The inputs of a run                                                     *)
(***************************************************************************)

\* Longest post list.
MaxPosts == 2

\* Largest limits.max_hours.
MaxTicks == 3

\* stages.yml: stage id -> target range.
StageTable ==
    [s \in {"1", "2"} |->
        IF s = "1" THEN [views_min |-> 3, views_max |-> 6]
        ELSE [views_min |-> 1, views_max |-> 2]]

\* A stage the table lacks taken as a stage of one view.
StageOrDefault(stage_map, stage) ==
    IF stage \in DOMAIN stage_map THEN [ok |-> TRUE, cfg |-> stage_map[stage]]
    ELSE [ok |-> TRUE, cfg |-> [views_min |-> 1, views_max |-> 1]]

\* stage_cfg = stage_map[stage]: the entry, or the KeyError (ok is FALSE).
StageLookup(stage_map, stage) ==
    IF stage \in DOMAIN stage_map THEN [ok |-> TRUE, cfg |-> stage_map[stage]]
    ELSE [ok |-> FALSE, cfg |-> [views_min |-> 0, views_max |-> 0]]

\* The rows posts.csv is drawn from; stage "9" is not in the stage table.
PostRows ==
    { [post_id |-> "1001", stage |-> "1", start_datetime |-> <<0, 8, 0, 0>>,
       seed_offset |-> 0],
      [post_id |-> "1002", stage |-> "2", start_datetime |-> <<0, 23, 30, 0>>,
       seed_offset |-> 1],
      [post_id |-> "1003", stage |-> "1", start_datetime |-> <<0, 9, 0, 0>>,
       seed_offset |-> 0],
      [post_id |-> "1004", stage |-> "9", start_datetime |-> <<0, 10, 0, 0>>,
       seed_offset |-> 0] }

\* Post lists of 1..MaxPosts rows with distinct ids, in any order.
PostLists ==
    { l \in UNION { [1..n -> PostRows] : n \in 1..MaxPosts } :
        \A a, b \in DOMAIN l : a # b => l[a].post_id # l[b].post_id }

\* The seed offsets the dashboard's user gives a post between two runs.
Offsets == {0, 1}

GlobalSeeds == {42}

\* engine.yml: tick_duration is a duration string or a {min, max} of them.
TickDurations ==
    { [dict |-> FALSE, value |-> <<1, "h">>],
      [dict |-> TRUE, min |-> <<15, "m">>, max |-> <<90, "m">>],
      [dict |-> FALSE, value |-> <<1, "d">>],
      [dict |-> TRUE, min |-> <<15, "m">>, max |-> <<2, "x">>],
      [dict |-> TRUE, min |-> <<1, "w">>, max |-> <<90, "m">>] }

\* engine.yml: increment {min, max}.  The dashboard asks each to be >= 1 and
\* does not compare them; a file written by hand can hold any integers.
Increments ==
    { [min |-> 1, max |-> 3], [min |-> 2, max |-> 3], [min |-> 3, max |-> 2],
      [min |-> 0, max |-> 2], [min |-> 1, max |-> 0] }

\* engine.yml: hourly_weights, hour -> weight.
UniformWeights == [h \in 0..23 |-> 1]

PeakWeights == [h \in 0..23 |-> IF h = 9 THEN 1 ELSE 0]

ZeroWeights == [h \in 0..23 |-> 0]

DayWeights == [h \in 0..23 |-> IF h \in 8..19 THEN 3 ELSE 1]

WeightTables == {UniformWeights, PeakWeights, ZeroWeights, DayWeights}

\* engine.yml: limits.system_hour_cap, None or an integer >= 1.
Caps == {<< >>, <<1>>}

Engines ==
    [tick_duration : TickDurations, increment : Increments,
     hourly_weights : WeightTables, max_hours : 1..MaxTicks,
     system_hour_cap : Caps]

NoTick == [fixed |-> TRUE, d |-> 0]

\* The locals of simulate before the call.
Fresh ==
    /\ pc = "start"
    /\ tick = NoTick
    /\ weights_norm = << >>
    /\ out_open = FALSE
    /\ out = << >>
    /\ row_no = 0
    /\ i = 0
    /\ rng = ZeroSeedState
    /\ target = 0
    /\ cum = 0
    /\ t = 0
    /\ k = 0
    /\ summary = << >>

Init ==
    /\ seed \in GlobalSeeds
    /\ posts \in PostLists
    /\ engine \in Engines
    /\ Fresh
    /\ run = 1
    /\ prev = [posts |-> << >>, engine |-> engine, out |-> << >>, summary |-> << >>]

(***************************************************************************)
(* simulate                                                                *)
(***************************************************************************)

\* The counter of a call that does not set it: the one the last call left.
RowNoNotReset == IF row_no > 0 THEN row_no ELSE 1

\* row_no = 1
StartRowNo == 1

\* The total of a post that does not set it: the one the last post left.
StaleCum == cum

\* cum = 0
StartCum == 0

\* ParsedTick with the swap written as two assignments in a row,
\* tick_min = tick_max; tick_max = tick_min, which leaves both at tick_max.
ParsedTickLostSwap(tick_cfg) ==
    IF tick_cfg.dict
    THEN LET a == parse_tick(tick_cfg.min)
             b == parse_tick(tick_cfg.max)
         IN  [ok  |-> a[1] /\ b[1],
              val |-> IF b[2] < a[2]
                      THEN [fixed |-> FALSE, min |-> b[2], max |-> b[2]]
                      ELSE [fixed |-> FALSE, min |-> a[2], max |-> b[2]]]
    ELSE LET a == parse_tick(tick_cfg.value)
         IN  [ok |-> a[1], val |-> [fixed |-> TRUE, d |-> a[2]]]

\* The tick configuration parsed: the fixed duration, or the two durations
\* swapped when max < min.  ok is FALSE when parse_tick raises.
ParsedTick(tick_cfg) ==
    IF tick_cfg.dict
    THEN LET a == parse_tick(tick_cfg.min)
             b == parse_tick(tick_cfg.max)
         IN  [ok  |-> a[1] /\ b[1],
              val |-> IF b[2] < a[2]
                      THEN [fixed |-> FALSE, min |-> b[2], max |-> a[2]]
                      ELSE [fixed |-> FALSE, min |-> a[2], max |-> b[2]]]
    ELSE LET a == parse_tick(tick_cfg.value)
         IN  [ok |-> a[1], val |-> [fixed |-> TRUE, d |-> a[2]]]

\* simulate up to its loop over the posts: the configuration is read, the
\* output is opened and its header written, row_no = 1.
Start ==
    /\ pc = "start"
    /\ LET parsed == ParsedTick(engine.tick_duration)
       IN  IF parsed.ok
           THEN /\ tick' = parsed.val
                /\ weights_norm' = normalize_weights(engine.hourly_weights)
                /\ out_open' = TRUE
                /\ out' = << >>
                /\ row_no' = StartRowNo
                /\ i' = 1
                /\ summary' = << >>
                /\ pc' = "post"
           ELSE /\ pc' = "failed"
                /\ UNCHANGED <<tick, weights_norm, out_open, out, row_no, i, summary>>
    /\ UNCHANGED <<seed, posts, engine, rng, target, cum, t, k, run, prev>>

\* The rows taken from the last to the first: for r in reversed(rows).
RowAtReversed(l, j) == l[Len(l) + 1 - j]

\* for r in rows: the row of the j-th pass of the loop over the posts.
RowAt(l, j) == l[j]

\* The head of the loop over the posts: the post's generator, target, total
\* and start time.  An unknown stage raises KeyError out of simulate.
BeginPost ==
    /\ pc = "post"
    /\ i <= Len(posts)
    /\ LET r         == RowAt(posts, i)
           post_seed == seed_for_post(seed, r.post_id, r.seed_offset)
           state0    == rng_from_seed(post_seed)
           stage_cfg == StageLookup(StageTable, r.stage)
       IN  IF stage_cfg.ok
           THEN \E draw \in {randint_inclusive(state0, stage_cfg.cfg.views_min,
                                                       stage_cfg.cfg.views_max)} :
                    /\ rng' = draw.state
                    /\ target' = draw.value
                    /\ cum' = StartCum
                    /\ t' = fromisoformat(r.start_datetime)
                    /\ k' = 0
                    /\ summary' = Append(summary,
                          [post_id |-> r.post_id, target |-> draw.value,
                           first |-> Len(out) + 1, rows |-> 0, iterations |-> 0,
                           cum |-> StartCum, end |-> "running"])
                    /\ pc' = "loop"
           ELSE /\ rng' = state0
                /\ pc' = "failed"
                /\ UNCHANGED <<target, cum, t, k, summary>>
    /\ UNCHANGED <<seed, posts, engine, tick, weights_norm, out_open, out, row_no, i, run, prev>>

\* One iteration of the loop over the ticks, to its end or to its break.
Tick ==
    /\ pc = "loop"
    /\ LoopContinues(k, engine.max_hours)
    /\ \E it \in {Iteration(engine, weights_norm, tick, target, rng, cum, t)} :
       LET n == IF it.emit THEN 1 ELSE 0
       IN  /\ rng' = it.state
           /\ cum' = it.cum
           /\ t' = it.t
           /\ k' = k + 1
           /\ out' = IF it.emit
                     THEN Append(out, [No |-> row_no, post_id |-> RowAt(posts, i).post_id,
                                       views_inc |-> it.inc, cum_views |-> it.cum,
                                       datetime |-> isoformat_tz(t)])
                     ELSE out
           /\ row_no' = IF it.emit THEN NextRowNo(row_no) ELSE row_no
           /\ summary' = [summary EXCEPT ![i] =
                            [@ EXCEPT !.rows = @ + n, !.iterations = @ + 1,
                                      !.cum = it.cum,
                                      !.end = IF it.brk THEN it.why ELSE @]]
           /\ IF it.brk
              THEN /\ pc' = "post"
                   /\ i' = i + 1
              ELSE UNCHANGED <<pc, i>>
    /\ UNCHANGED <<seed, posts, engine, tick, weights_norm, out_open, target, run, prev>>

\* range(max_hours) is exhausted: the loop over the posts goes on.
EndLoop ==
    /\ pc = "loop"
    /\ ~LoopContinues(k, engine.max_hours)
    /\ summary' = [summary EXCEPT ![i].end = "exhausted"]
    /\ pc' = "post"
    /\ i' = i + 1
    /\ UNCHANGED <<seed, posts, engine, tick, weights_norm, out_open, out, row_no,
                   rng, target, cum, t, k, run, prev>>

\* The posts are exhausted: out_f.close(), return.
Finish ==
    /\ pc = "post"
    /\ i > Len(posts)
    /\ out_open' = FALSE
    /\ pc' = "done"
    /\ UNCHANGED <<seed, posts, engine, tick, weights_norm, out, row_no, i,
                   rng, target, cum, t, k, summary, run, prev>>

Next == Start \/ BeginPost \/ Tick \/ EndLoop \/ Finish

\* The post lists a second run of the session is given: the same list, or the
\* list with the seed_offset of one post changed.
Variants(l) ==
    {l} \cup UNION { { [l EXCEPT ![j].seed_offset = o] :
                       o \in Offsets \ {l[j].seed_offset} } : j \in DOMAIN l }

\* The engine configuration with the two durations of a {min, max}
\* tick_duration given the other way round.
TickSwapped(e) ==
    IF e.tick_duration.dict
    THEN [e EXCEPT !.tick_duration = [dict |-> TRUE, min |-> @.max, max |-> @.min]]
    ELSE e

\* The dashboard runs simulate again, with the same seed and stage table, and
\* with the same inputs, or one post's seed_offset changed, or the two tick
\* durations exchanged; the first run's rows are kept for comparison.  What
\* the first call left behind is still there; the second call sets its own
\* locals.
Rerun ==
    /\ pc = "done"
    /\ run = 1
    /\ run' = 2
    /\ prev' = [posts |-> posts, engine |-> engine, out |-> out, summary |-> summary]
    /\ \/ posts' \in Variants(posts) /\ engine' = engine
       \/ posts' = posts /\ engine' = TickSwapped(engine)
    /\ pc' = "start"
    /\ UNCHANGED <<seed, tick, weights_norm, out_open, out, row_no, i,
                   rng, target, cum, t, k, summary>>

PairNext == Next \/ Rerun

\* Two runs of the engine, one after the other.
PairSpec == Init /\ [][PairNext]_vars

Spec == Init /\ [][Next]_vars

\* What every step of a run does to its position: it moves to another place
\* of simulate, or it begins one more iteration of the loop over the ticks.
RunStep ==
    /\ pc \notin {"done", "failed"}
    /\ \/ pc' \in {"post", "loop", "done", "failed"} \ {pc} /\ k' \in {k, 0, k + 1}
       \/ pc' = pc /\ k' = k + 1

\* A place of simulate from which a step of Next can be taken.
CanStep == pc \in {"start", "post", "loop"}

\* The run is sequential code with nothing to wait for: until it has returned
\* or raised, it takes its next step.
FairSpec == Spec /\ WF_<<pc, k>>(RunStep)

(***************************************************************************)
(* Properties                                                              *)
(***************************************************************************)

\* The rows of the output o that belong to the post id.
RowsOfPost(o, id) == SelectSeq(o, LAMBDA r : r.post_id = id)

\* The index in posts of the post a row belongs to (ids are distinct).
PostIndex(l, id) == CHOOSE j \in DOMAIN l : l[j].post_id = id

ValidIncrement == 1 <= engine.increment.min /\ engine.increment.min <= engine.increment.max

\* C1: a post's loop begins at most max_hours iterations, and the run over
\* the post list ends: it returns, or it raises at a tick duration it cannot
\* parse or at a post whose stage the stage table lacks, and it returns when
\* the tick duration parses and every post's stage is known.
C1_LoopBoundedAndRunEnds ==
    /\ [](/\ k <= engine.max_hours
          /\ \A j \in DOMAIN summary : summary[j].iterations <= engine.max_hours)
    /\ [](pc \notin {"done", "failed"} => CanStep)
    /\ <>(pc \in {"done", "failed"})
    /\ (/\ \A j \in DOMAIN posts : posts[j].stage \in DOMAIN StageTable
        /\ ParsedTick(engine.tick_duration).ok) => <>(pc = "done")

\* A finished run in which a post used every iteration without reaching its target.
C1_Witness ==
    /\ pc = "done"
    /\ engine.max_hours >= 2
    /\ \E j \in DOMAIN summary :
          /\ summary[j].end = "exhausted"
          /\ summary[j].iterations = engine.max_hours
          /\ summary[j].cum < summary[j].target

\* C2: within a post, cum_views grows strictly from row to row, and is
\* positive from the first row on.
C2_CumStrictlyIncreasing ==
    /\ \A a \in DOMAIN out : out[a].cum_views > 0
    /\ \A a, b \in DOMAIN out :
          (a < b /\ out[a].post_id = out[b].post_id)
             => out[a].cum_views < out[b].cum_views

\* A post with a tick that wrote no row between ticks that did.
C2_Witness ==
    \E j \in DOMAIN summary :
        /\ summary[j].rows >= 2
        /\ summary[j].iterations > summary[j].rows

\* C3: a row's cum_views is the cum_views of the post's previous row plus the
\* row's views_inc, and the views_inc itself for the post's first row.
C3_CumIsRunningSum ==
    \A n \in DOMAIN out :
        LET before == { a \in 1..(n - 1) : out[a].post_id = out[n].post_id }
        IN  IF before = {}
            THEN out[n].cum_views = out[n].views_inc
            ELSE LET a == CHOOSE x \in before : \A y \in before : y <= x
                 IN  out[n].cum_views = out[a].cum_views + out[n].views_inc

\* Two posts with rows, the second post with at least two.
C3_Witness ==
    /\ Len(summary) >= 2
    /\ summary[1].rows >= 1
    /\ summary[2].rows >= 2

\* C4: the n-th row written in the run has No = n, whichever post it belongs to.
C4_NoCountsRows == \A n \in DOMAIN out : out[n].No = n

\* A row of a second post following rows of a first.
C4_Witness ==
    \E n \in DOMAIN out :
        n >= 3 /\ out[n].post_id # out[n - 1].post_id /\ out[n].No = n

\* C5: the running total never passes the target: in the loop cum <= target,
\* and no row of a post has cum_views above the post's target.
C5_CumAtMostTarget ==
    /\ pc = "loop" => cum <= target
    /\ \A j \in DOMAIN summary : summary[j].cum <= summary[j].target
    /\ \A n \in DOMAIN out :
          out[n].cum_views <= summary[PostIndex(posts, out[n].post_id)].target

\* A post that ended on a forced final row smaller than increment.min.
C5_Witness ==
    \E n \in DOMAIN out :
        /\ out[n].views_inc < engine.increment.min
        /\ out[n].cum_views = summary[PostIndex(posts, out[n].post_id)].target
        /\ out[n].cum_views > out[n].views_inc

\* The last row of the post id in the output o.
LastRowOfPost(o, id) == RowsOfPost(o, id)[Len(RowsOfPost(o, id))]

\* C6: a post whose loop stopped with iterations to spare wrote its last row
\* exactly on its target, and once its loop has stopped no row of it is written.
C6_EarlyStopIsOnTarget ==
    /\ [](\A j \in DOMAIN summary :
            (summary[j].end # "running" /\ summary[j].iterations < engine.max_hours)
               => /\ summary[j].rows >= 1
                  /\ Len(RowsOfPost(out, posts[j].post_id)) = summary[j].rows
                  /\ LastRowOfPost(out, posts[j].post_id).cum_views = summary[j].target)
    /\ [][\A j \in DOMAIN summary :
            summary[j].end # "running"
               => RowsOfPost(out', posts[j].post_id) = RowsOfPost(out, posts[j].post_id)]_vars

\* A post stopped on its target after several rows, with iterations to spare,
\* and a later post wrote rows after it.
C6_Witness ==
    /\ Len(summary) >= 2
    /\ summary[1].end = "target"
    /\ summary[1].rows >= 2
    /\ summary[1].iterations < engine.max_hours
    /\ summary[2].rows >= 1

\* C7: a tick in an hour of normalized weight 0 writes no row and leaves the
\* running total as it is, and the time moves on.
C7_ZeroWeightTickWritesNothing ==
    [][(pc = "loop" /\ k' = k + 1 /\ WeightAt(weights_norm, HourOf(t))[1] = 0)
          => (out' = out /\ cum' = cum /\ t' > t)]_vars

\* C8: a second run on the same seed, posts, stage table and engine
\* configuration writes the rows the first run wrote.
C8_SameInputsSameRows ==
    (run = 2 /\ pc = "done" /\ posts = prev.posts /\ engine = prev.engine)
       => out = prev.out

\* A second run on the same inputs, with a random tick and rows of two posts.
C8_Witness ==
    /\ run = 2
    /\ pc = "done"
    /\ posts = prev.posts
    /\ engine = prev.engine
    /\ engine.tick_duration.dict
    /\ Len(posts) = 2
    /\ summary[1].rows >= 2
    /\ summary[2].rows >= 1

\* The second run was given the first run's posts with the seed_offset of
\* post j changed.
OffsetChangedAt(j) ==
    /\ DOMAIN posts = DOMAIN prev.posts
    /\ j \in DOMAIN posts
    /\ posts[j].seed_offset # prev.posts[j].seed_offset
    /\ \A m \in DOMAIN posts : m # j => posts[m] = prev.posts[m]

\* A row without its No.
Content(r) == <<r.post_id, r.views_inc, r.cum_views, r.datetime>>

ContentOf(rows) == [n \in DOMAIN rows |-> Content(rows[n])]

\* C9 as stated: with the seed_offset of one post changed, every row of every
\* other post is the same in all its columns, No included.
C9_OtherPostsRowsIdentical ==
    (run = 2 /\ pc = "done")
       => \A j \in DOMAIN posts :
             OffsetChangedAt(j)
                => \A m \in DOMAIN posts :
                      m # j => RowsOfPost(out, posts[m].post_id)
                                  = RowsOfPost(prev.out, posts[m].post_id)

\* C9 amended: every other post keeps its rows' post_id, views_inc, cum_views
\* and datetime; it keeps their No when it stands before the changed post, and
\* has them shifted by the change in the changed post's number of rows when it
\* stands after it.
C9_OtherPostsContentIdentical ==
    (run = 2 /\ pc = "done")
       => \A j \in DOMAIN posts :
             OffsetChangedAt(j)
                => \A m \in DOMAIN posts :
                      m # j =>
                        LET new   == RowsOfPost(out, posts[m].post_id)
                            old   == RowsOfPost(prev.out, posts[m].post_id)
                            shift == IF m < j THEN 0
                                     ELSE summary[j].rows - prev.summary[j].rows
                        IN  /\ ContentOf(new) = ContentOf(old)
                            /\ \A n \in DOMAIN new : new[n].No = old[n].No + shift

\* The first post's seed_offset was changed, it wrote another number of rows,
\* and the post after it wrote rows.
C9_Witness ==
    /\ run = 2
    /\ pc = "done"
    /\ Len(posts) = 2
    /\ OffsetChangedAt(1)
    /\ summary[1].rows # prev.summary[1].rows
    /\ summary[2].rows >= 2

\* C10: with 1 <= increment.min <= increment.max every row has views_inc >= 1,
\* and every row of a post but its last has views_inc in [min, max].
C10_IncrementWithinBounds ==
    ValidIncrement =>
       /\ \A n \in DOMAIN out : out[n].views_inc >= 1
       /\ \A a, b \in DOMAIN out :
             (a < b /\ out[a].post_id = out[b].post_id)
                => /\ engine.increment.min <= out[a].views_inc
                   /\ out[a].views_inc <= engine.increment.max

\* Valid bounds, a post with rows inside the bounds and a last row below them,
\* in hours whose weight scales the drawn increment below the minimum.
C10_Witness ==
    /\ ValidIncrement
    /\ engine.hourly_weights = PeakWeights
    /\ \E a, b \in DOMAIN out :
          /\ a < b
          /\ out[a].post_id = out[b].post_id
          /\ out[b].views_inc < engine.increment.min

\* C11: with an hour cap configured, no row has views_inc greater than the
\* cap, whatever the cap >= 1, those below increment.min included.
C11_IncAtMostCap ==
    engine.system_hour_cap # << >>
       => \A n \in DOMAIN out : out[n].views_inc <= engine.system_hour_cap[1]

\* C12: a post whose target is at least 1 and at most increment.min writes
\* exactly one row, in its first iteration: the row has the post's start time
\* and views_inc = cum_views = target, and the post's loop ends there.
C12_SmallTargetOneRow ==
    \A j \in DOMAIN summary :
       (1 <= summary[j].target /\ summary[j].target <= engine.increment.min)
          => IF summary[j].iterations = 0
             THEN summary[j].end = "running" /\ RowsOfPost(out, posts[j].post_id) = << >>
             ELSE /\ summary[j].iterations = 1
                  /\ summary[j].end = "target"
                  /\ RowsOfPost(out, posts[j].post_id) =
                        << [No        |-> summary[j].first,
                            post_id   |-> posts[j].post_id,
                            views_inc |-> summary[j].target,
                            cum_views |-> summary[j].target,
                            datetime  |-> isoformat_tz(fromisoformat(posts[j].start_datetime))] >>

\* The second post had a target below increment.min and has ended, after a
\* first post that wrote rows.
C12_Witness ==
    /\ Len(summary) >= 2
    /\ summary[1].rows >= 1
    /\ 1 <= summary[2].target
    /\ summary[2].target < engine.increment.min
    /\ summary[2].end # "running"
    /\ engine.max_hours >= 2

\* ceil(a / b) for b >= 1.
CeilDiv(a, b) == (a + b - 1) \div b

RowsSpacedBy(j, d) ==
    LET rows == RowsOfPost(out, posts[j].post_id)
    IN  \A n \in DOMAIN rows :
           rows[n].datetime
              = isoformat_tz(fromisoformat(posts[j].start_datetime) + (n - 1) * d)

\* C14: with a fixed tick duration d and uniform hourly weights, the n-th row
\* of a post has the time start_time + (n - 1) * d.
C14_FixedTickRowsSpaced ==
    (pc \in {"loop", "post", "done", "failed"} /\ tick.fixed
        /\ engine.hourly_weights = UniformWeights)
       => \A j \in DOMAIN summary : RowsSpacedBy(j, tick.d)

\* C15: the times of a post's rows never decrease in the order the rows were
\* written, with a fixed tick and with a tick drawn between two durations.
C15_DatetimeNonDecreasing ==
    \A a, b \in DOMAIN out :
       (a < b /\ out[a].post_id = out[b].post_id)
          => fromisoformat(out[a].datetime) <= fromisoformat(out[b].datetime)

\* A post wrote three rows at ticks drawn between two durations.
C15_Witness ==
    /\ engine.tick_duration.dict
    /\ \E j \in DOMAIN summary : summary[j].rows >= 3

\* The smaller and the larger of the two configured durations, in seconds.
SmallerDuration ==
    Min(parse_tick(engine.tick_duration.min)[2], parse_tick(engine.tick_duration.max)[2])

LargerDuration ==
    Max(parse_tick(engine.tick_duration.min)[2], parse_tick(engine.tick_duration.max)[2])

AtUnknownStage ==
    /\ pc = "post"
    /\ i <= Len(posts)
    /\ posts[i].stage \notin DOMAIN StageTable

\* C17: a post whose stage is not in the stage table is found before its loop
\* begins: the run fails there, no row of that post is ever written, and the
\* rows written for the posts before it stay as they are.
C17_UnknownStageFailsBeforeLoop ==
    /\ [](\A j \in DOMAIN summary : posts[j].stage \in DOMAIN StageTable)
    /\ [](\A n \in DOMAIN out : \E j \in DOMAIN posts :
             /\ posts[j].post_id = out[n].post_id
             /\ posts[j].stage \in DOMAIN StageTable)
    /\ [](pc = "done" => \A j \in DOMAIN posts : posts[j].stage \in DOMAIN StageTable)
    /\ [][AtUnknownStage => (pc' = "failed" /\ out' = out /\ summary' = summary)]_vars
    /\ [][pc = "failed" => (pc' = "failed" /\ out' = out)]_vars

\* The run failed at its second post, after the rows of the first.
C17_Witness ==
    /\ pc = "failed"
    /\ i = 2
    /\ posts[2].stage \notin DOMAIN StageTable
    /\ Len(out) >= 2
    /\ summary[1].rows = Len(out)

\* C18: the output stream is closed on every way out of the run, its normal
\* end and a failure that leaves simulate alike.
C18_StreamClosedOnEveryExit ==
    pc \in {"done", "failed"} => ~out_open

\* C19: with increment.min < 1 or increment.max < increment.min the run is
\* refused as a configuration error: it writes no row and never completes a
\* simulation.
C19_InvalidBoundsRejected ==
    ~ValidIncrement => (out = << >> /\ pc # "done")

\* C20: a post that used all max_hours iterations without reaching its
\* target ends with its total below the target; the run does not fail there
\* but goes on with the next post, whose rows take the next numbers of No.
C20_ExhaustionIsSilent ==
    /\ [](\A j \in DOMAIN summary :
            summary[j].end = "exhausted"
               => /\ summary[j].iterations = engine.max_hours
                  /\ summary[j].cum < summary[j].target
                  /\ \A n \in DOMAIN out :
                        out[n].post_id = posts[j].post_id
                           => out[n].cum_views < summary[j].target
                  /\ i > j
                  /\ (pc = "failed" => posts[i].stage \notin DOMAIN StageTable)
                  /\ (j + 1 \in DOMAIN summary /\ summary[j + 1].rows >= 1)
                        => RowsOfPost(out, posts[j + 1].post_id)[1].No
                              = Len(SelectSeq(out, LAMBDA r :
                                       PostIndex(posts, r.post_id) <= j)) + 1)
    /\ [][(pc = "loop" /\ k = engine.max_hours)
            => (pc' = "post" /\ i' = i + 1 /\ row_no' = row_no /\ out' = out
                /\ summary'[i].end = "exhausted")]_vars

\* A first post used every iteration and stayed below its target after
\* writing rows, and the run went on to a second post that wrote rows.
C20_Witness ==
    /\ pc = "done"
    /\ Len(summary) >= 2
    /\ summary[1].end = "exhausted"
    /\ summary[1].rows >= 2
    /\ summary[2].rows >= 1

\* C21: the posts are taken one at a time in the order of the input: in the
\* output the rows of a post stand together, and the rows of a post that
\* stands earlier in the input stand before those of a post that stands later.
C21_RowsInInputOrder ==
    \A a, b \in DOMAIN out :
       a < b => PostIndex(posts, out[a].post_id) <= PostIndex(posts, out[b].post_id)

\* A finished run of two posts with several rows each.
C21_Witness ==
    /\ pc = "done"
    /\ Len(posts) = 2
    /\ summary[1].rows >= 2
    /\ summary[2].rows >= 2

(***************************************************************************)
(* The generator on its own: randint_inclusive from any 64-bit state       *)
(***************************************************************************)

\* Most draws taken from one generator.
MaxDraws == 6

\* Generator states: those the seeds of the posts give, the state a zero
\* seed is replaced by, and the states whose successor is 2^64 - 1,
\* 2^64 - 1024, 2^64 - 1025, 0 and 2^63.
GeneratorStates ==
    { rng_from_seed(seed_for_post(42, r.post_id, r.seed_offset)) : r \in PostRows }
       \cup { ZeroSeedState,
              <<182, 174, 195, 154, 241, 32, 208, 126>>,
              <<91, 67, 191, 84, 174, 243, 169, 223>>,
              <<182, 26, 33, 34, 39, 4, 18, 31>>,
              <<91, 215, 97, 205, 120, 16, 104, 63>>,
              <<91, 215, 97, 205, 120, 16, 104, 191>> }

\* A generator in some state, about to draw targets for the stage of a post.
RngInit ==
    /\ seed \in GlobalSeeds
    /\ posts \in { <<r>> : r \in { x \in PostRows : x.stage \in DOMAIN StageTable } }
    /\ engine = CHOOSE e \in Engines : TRUE
    /\ pc = "rng"
    /\ tick = NoTick
    /\ weights_norm = << >>
    /\ out_open = FALSE
    /\ out = << >>
    /\ row_no = 0
    /\ i = 1
    /\ rng \in GeneratorStates
    /\ target = 0
    /\ cum = 0
    /\ t = 0
    /\ k = 0
    /\ summary = << >>
    /\ run = 1
    /\ prev = [posts |-> << >>, engine |-> engine, out |-> << >>, summary |-> << >>]

\* target = rng.randint_inclusive(target_min, target_max)
DrawTarget ==
    /\ pc = "rng"
    /\ k < MaxDraws
    /\ \E draw \in {randint_inclusive(rng, StageTable[posts[1].stage].views_min,
                                          StageTable[posts[1].stage].views_max)} :
          /\ rng' = draw.state
          /\ target' = draw.value
    /\ k' = k + 1
    /\ UNCHANGED <<seed, posts, engine, pc, tick, weights_norm, out_open, out,
                   row_no, i, cum, t, summary, run, prev>>

RngSpec == RngInit /\ [][DrawTarget]_vars

\* C24: a target drawn by randint_inclusive(views_min, views_max) lies in
\* [views_min, views_max], whatever the 64-bit state of the generator.
C24_TargetWithinStageRange ==
    (pc = "rng" /\ k >= 1)
       => /\ StageTable[posts[1].stage].views_min <= target
          /\ target <= StageTable[posts[1].stage].views_max

\* The suffixes of the configured tick durations.
TickSuffixes(tick_cfg) ==
    IF tick_cfg.dict THEN {tick_cfg.min[2], tick_cfg.max[2]} ELSE {tick_cfg.value[2]}

BadSuffix == \E x \in TickSuffixes(engine.tick_duration) : x \notin {"h", "m", "s"}

\* C25: with a tick duration whose suffix is not h, m or s, as the fixed
\* value or as either end of a range, the run fails before it opens the
\* output: no header and no row are written.
C25_BadSuffixFailsBeforeOpen ==
    /\ [](BadSuffix => (~out_open /\ out = << >> /\ pc \in {"start", "failed"}))
    /\ [][(BadSuffix /\ pc = "start") => pc' = "failed"]_vars

\* The run failed on the second duration of a range.
C25_Witness ==
    /\ pc = "failed"
    /\ engine.tick_duration.dict
    /\ engine.tick_duration.min[2] = "m"
    /\ engine.tick_duration.max[2] = "x"
    /\ ~out_open

\* The state of a generator advanced n times.
RECURSIVE AdvanceN(_, _)
AdvanceN(state, n) == IF n = 0 THEN state ELSE AdvanceN(Advance(state), n - 1)

\* The draws the claim counts for post j so far: one for the target, one for
\* the base increment of every iteration begun and, with a range tick, one
\* for the step of every iteration that did not end the post.
DrawsOf(j) ==
    1 + summary[j].iterations
      + (IF tick.fixed THEN 0
         ELSE summary[j].iterations
                 - (IF summary[j].end \in {"target", "remaining"} THEN 1 ELSE 0))

\* C26: a post's generator is advanced once for the target, then in every
\* iteration once for the base increment, the ending iteration included, and
\* with a range tick once more for the step in the iterations that do not end
\* the post; with a fixed tick the step takes no draw.
C26_DrawOrder ==
    /\ []((pc \in {"loop", "post", "done"} /\ Len(summary) >= 1)
            => LET j == Len(summary)
               IN  rng = AdvanceN(rng_from_seed(seed_for_post(seed, posts[j].post_id,
                                                              posts[j].seed_offset)),
                                  DrawsOf(j)))
    /\ [][(pc = "post" /\ pc' = "loop")
            => target' = RandintValue(rng', StageTable[posts[i].stage].views_min,
                                            StageTable[posts[i].stage].views_max)]_vars
    /\ [][(pc = "loop" /\ k' = k + 1)
            => LET s1   == Advance(rng)
                   base == RandintValue(s1, engine.increment.min, engine.increment.max)
                   w    == WeightAt(weights_norm, HourOf(t))
               IN  /\ Len(out') > Len(out)
                        => out'[Len(out')].views_inc
                              = ClampInc(CapInc(ScaledInc(base, w), engine.system_hour_cap),
                                         target - cum, engine.increment.min,
                                         engine.increment.max)
                   /\ pc' = "post" => rng' = s1
                   /\ (pc' = "loop" /\ tick.fixed) => (rng' = s1 /\ t' = t + tick.d)
                   /\ (pc' = "loop" /\ ~tick.fixed)
                        => /\ rng' = Advance(s1)
                           /\ t' = t + StepOf(tick, DrawnFloat(rng')).step]_vars

\* A post with a range tick went through two iterations that did not end it
\* and one that did.
C26_Witness ==
    /\ ~tick.fixed
    /\ pc \in {"post", "done"}
    /\ Len(summary) >= 1
    /\ summary[Len(summary)].end = "target"
    /\ summary[Len(summary)].iterations >= 3

\* The summary entry of the post a row belongs to.
SummaryOf(row) == summary[CHOOSE j \in DOMAIN summary : summary[j].post_id = row.post_id]

\* C27: with 1 <= increment.min <= increment.max no row's views_inc exceeds
\* increment.max, and a row whose views_inc is below increment.min is the last
\* row of its post and brings the post exactly to its target.
C27_IncAtMostMaxAndShortOnlyAtEnd ==
    ValidIncrement =>
        \A a \in DOMAIN out :
            /\ out[a].views_inc <= engine.increment.max
            /\ out[a].views_inc < engine.increment.min
                 => /\ a = SummaryOf(out[a]).first + SummaryOf(out[a]).rows - 1
                    /\ out[a].cum_views = SummaryOf(out[a]).target
                    /\ SummaryOf(out[a]).end = "target"

\* A finished run under peaked weights with a row at increment.max and a last
\* row below increment.min.
C27_Witness ==
    /\ pc = "done"
    /\ ValidIncrement
    /\ engine.increment.min < engine.increment.max
    /\ engine.hourly_weights = PeakWeights
    /\ \E a \in DOMAIN out : out[a].views_inc = engine.increment.max
    /\ \E a \in DOMAIN out : out[a].views_inc < engine.increment.min

\* C28: with increment.min >= 1 and every views_min >= 1 each iteration of a
\* post's loop writes one row: no post ends at remaining <= 0, a post has as
\* many rows as iterations, and a post that used up its iterations has
\* max_hours rows.
C28_EveryIterationWritesARow ==
    (/\ engine.increment.min >= 1
     /\ \A s \in DOMAIN StageTable : StageTable[s].views_min >= 1)
    => \A j \in DOMAIN summary :
          /\ summary[j].rows = summary[j].iterations
          /\ summary[j].end # "remaining"
          /\ summary[j].end = "exhausted" => summary[j].rows = engine.max_hours

\* The post at index j is in its loop with valid increment bounds and a
\* budget of at least ceil(target / increment.min) iterations.
BudgetCoversTarget(j) ==
    /\ pc = "loop"
    /\ i = j
    /\ ValidIncrement
    /\ engine.max_hours >= CeilDiv(target, engine.increment.min)

\* The post at index j has finished by target: its last row carries cum_views = target.
FinishedByTarget(j) ==
    /\ j \in DOMAIN summary
    /\ summary[j].end = "target"
    /\ summary[j].rows >= 1
    /\ out[summary[j].first + summary[j].rows - 1].post_id = posts[j].post_id
    /\ out[summary[j].first + summary[j].rows - 1].cum_views = summary[j].target

\* C29: with 1 <= increment.min <= increment.max, a post whose budget max_hours
\* is at least ceil(target / increment.min) eventually finishes by target, its
\* last row carrying cum_views = target, under every weight table and hour cap.
C29_ProgressToTarget ==
    \A j \in 1..MaxPosts : BudgetCoversTarget(j) ~> FinishedByTarget(j)

\* Under all-zero weights and the hour cap, a post of target 6 with
\* increment.min 2 ended on its target with its third and last allowed row.
C29_Witness ==
    /\ FinishedByTarget(1)
    /\ ValidIncrement
    /\ engine.hourly_weights = ZeroWeights
    /\ engine.system_hour_cap = <<1>>
    /\ summary[1].target = 6
    /\ engine.increment.min = 2
    /\ engine.max_hours = 3
    /\ summary[1].rows = 3

(***************************************************************************)
(* The dashboard's post list (src/streamlit_app.py).  posts holds           *)
(* st.session_state.posts_data, a post_id is the sequence of its            *)
(* characters, pc names the outcome of the last button pressed and i the    *)
(* index the last delete removed.                                          *)
(***************************************************************************)

\* Longest post list of a session.
MaxDashPosts == 3

\* Largest post_count of one bulk generation.
MaxBulk == 2

\* Largest number the session gives out as an id.
MaxId == 1005

DigitChars == <<"0", "1", "2", "3", "4", "5", "6", "7", "8", "9">>

\* str.isdigit(): not empty and every character a digit.
isdigit(s) == s # << >> /\ \A c \in DOMAIN s : \E d \in DOMAIN DigitChars : DigitChars[d] = s[c]

DigitValue(c) == (CHOOSE d \in DOMAIN DigitChars : DigitChars[d] = c) - 1

\* int(s) of a string of digits.
RECURSIVE IntOf(_)
IntOf(s) ==
    IF s = << >> THEN 0
    ELSE 10 * IntOf(SubSeq(s, 1, Len(s) - 1)) + DigitValue(s[Len(s)])

\* str(n) of an integer n >= 0.
RECURSIVE StrOf(_)
StrOf(n) ==
    IF n < 10 THEN <<DigitChars[n + 1]>>
    ELSE Append(StrOf(n \div 10), DigitChars[(n % 10) + 1])

\* str.strip(): the string without its leading and trailing blanks.
RECURSIVE strip(_)
strip(s) ==
    IF s = << >> THEN s
    ELSE IF s[1] = " " THEN strip(Tail(s))
    ELSE IF s[Len(s)] = " " THEN strip(SubSeq(s, 1, Len(s) - 1))
    ELSE s

MaxOf(S) == CHOOSE x \in S : \A y \in S : y <= x

\* The next id of the bulk generation and the default id of the single add:
\* 1001 for an empty list or a list without numeric ids, else max + 1.
next_id(list) ==
    LET existing_ids == { IntOf(list[j].post_id) : j \in { x \in DOMAIN list : isdigit(list[x].post_id) } }
    IN  IF list = << >> THEN 1001
        ELSE IF existing_ids # {} THEN MaxOf(existing_ids) + 1 ELSE 1001

\* The single add refusing nothing but a blank id.
RefusedBlankOnly(list, new_post_id) == strip(new_post_id) = << >>

\* The single add refuses an id of the list and a blank id.
Refused(list, new_post_id) ==
    \/ \E j \in DOMAIN list : list[j].post_id = new_post_id
    \/ strip(new_post_id) = << >>

\* The stages chosen in the two select boxes.
DashStages == {5, 7}

\* The ids typed into the text input, next to its default.
TypedIds ==
    { <<"1", "0", "0", "1">>, <<"1", "0", "0", "2">>, <<"0", "1", "0", "0", "2">>,
      <<"a">>, <<" ">>, << >> }

NewPost(id, stage) ==
    [post_id |-> id, stage |-> stage, cum_views |-> 0,
     start_datetime |-> <<0, 9, 0, 0>>, seed_offset |-> 0]

\* A session before any button is pressed.
DashInit ==
    /\ seed \in GlobalSeeds
    /\ posts = << >>
    /\ engine = CHOOSE e \in Engines : TRUE
    /\ pc = "dashboard"
    /\ tick = NoTick
    /\ weights_norm = << >>
    /\ out_open = FALSE
    /\ out = << >>
    /\ row_no = 0
    /\ i = 0
    /\ rng = ZeroSeedState
    /\ target = 0
    /\ cum = 0
    /\ t = 0
    /\ k = 0
    /\ summary = << >>
    /\ run = 1
    /\ prev = [posts |-> << >>, engine |-> engine, out |-> << >>, summary |-> << >>]

DashPcs == {"dashboard", "generated", "added", "refused", "deleted"}

\* The button of the bulk generation: post_count posts of one stage.
BulkGenerate ==
    /\ pc \in DashPcs
    /\ \E post_count \in 1..MaxBulk, selected_stage \in DashStages :
          /\ Len(posts) + post_count <= MaxDashPosts
          /\ next_id(posts) + post_count - 1 <= MaxId
          /\ posts' = posts \o [j \in 1..post_count |->
                                   NewPost(StrOf(next_id(posts) + j - 1), selected_stage)]
    /\ pc' = "generated"
    /\ UNCHANGED <<seed, engine, tick, weights_norm, out_open, out, row_no, i, rng,
                   target, cum, t, k, summary, run, prev>>

\* The button of the single add, with the id typed or left at its default.
SingleAdd ==
    /\ pc \in DashPcs
    /\ \E new_post_id \in TypedIds \cup {StrOf(Min(next_id(posts), MaxId))},
          new_stage \in DashStages :
          IF Refused(posts, new_post_id)
          THEN /\ posts' = posts
               /\ pc' = "refused"
          ELSE /\ Len(posts) < MaxDashPosts
               /\ posts' = Append(posts, NewPost(new_post_id, new_stage))
               /\ pc' = "added"
    /\ UNCHANGED <<seed, engine, tick, weights_norm, out_open, out, row_no, i, rng,
                   target, cum, t, k, summary, run, prev>>

\* The text of a post in the delete select box.
DeleteOption(p) == <<p.post_id, p.stage>>

\* list.index(x): the first index that holds x.
IndexOf(options, x) ==
    CHOOSE j \in DOMAIN options : options[j] = x /\ \A h \in 1..(j - 1) : options[h] # x

\* list.pop(j)
Pop(list, j) == SubSeq(list, 1, j - 1) \o SubSeq(list, j + 1, Len(list))

\* The delete button with one of the options selected.
Delete ==
    /\ pc \in DashPcs
    /\ Len(posts) > 0
    /\ \E selected \in DOMAIN posts :
          LET delete_options == [j \in DOMAIN posts |-> DeleteOption(posts[j])]
              selected_index == IndexOf(delete_options, delete_options[selected])
          IN  /\ posts' = Pop(posts, selected_index)
              /\ i' = selected
    /\ pc' = "deleted"
    /\ UNCHANGED <<seed, engine, tick, weights_norm, out_open, out, row_no, rng,
                   target, cum, t, k, summary, run, prev>>

DashNext == BulkGenerate \/ SingleAdd \/ Delete

DashSpec == DashInit /\ [][DashNext]_vars

\* The numeric ids of a list, as integers.
NumericIds(list) ==
    { IntOf(list[j].post_id) : j \in { x \in DOMAIN list : isdigit(list[x].post_id) } }

\* C30: in the dashboard the post_id values of the session's list are pairwise
\* distinct after every sequence of bulk generations, single adds and deletes:
\* a bulk generation appends the ids max(numeric ids) + 1 onward, 1001 onward
\* when the list has no numeric id; a refused single add leaves the list as it
\* was, and an id of the list is refused; a delete removes the one entry selected.
C30_PostIdsDistinct ==
    /\ [](pc \in DashPcs
            => \A a, b \in DOMAIN posts : a # b => posts[a].post_id # posts[b].post_id)
    /\ [][pc' = "generated"
            => LET base == IF NumericIds(posts) = {} THEN 1001
                           ELSE MaxOf(NumericIds(posts)) + 1
               IN  /\ Len(posts') > Len(posts)
                   /\ SubSeq(posts', 1, Len(posts)) = posts
                   /\ \A j \in (Len(posts) + 1)..Len(posts') :
                         /\ isdigit(posts'[j].post_id)
                         /\ IntOf(posts'[j].post_id) = base + (j - Len(posts) - 1)
                         /\ posts'[j].post_id[1] # "0"]_vars
    /\ [][pc' = "refused" => posts' = posts]_vars
    /\ [][pc' = "added"
            => /\ Len(posts') = Len(posts) + 1
               /\ SubSeq(posts', 1, Len(posts)) = posts
               /\ \A j \in DOMAIN posts : posts[j].post_id # posts'[Len(posts')].post_id]_vars
    /\ [][pc' = "deleted"
            => /\ Len(posts') = Len(posts) - 1
               /\ \A j \in DOMAIN posts' :
                     posts'[j] = IF j < i' THEN posts[j] ELSE posts[j + 1]]_vars

\* A full list after a delete and a bulk generation that took the freed id
\* again, next to an id with a leading zero and one that is no number.
C30_Witness ==
    /\ pc = "generated"
    /\ Len(posts) = MaxDashPosts
    /\ \E a \in DOMAIN posts : ~isdigit(posts[a].post_id)
    /\ \E a \in DOMAIN posts : posts[a].post_id[1] = "0"
    /\ i >= 1

(***************************************************************************)
(* normalize_weights in binary64.  A float is [s, m, e]: the sign (1 for    *)
(* negative), the significand as a bit sequence whose lowest bit is 1, and  *)
(* the exponent of that bit; zero is [s |-> 0, m |-> << >>, e |-> 0].        *)
(***************************************************************************)

FloatZero == [s |-> 0, m |-> << >>, e |-> 0]

\* The one element of a set of one element.  A value needed more than once is
\* computed once by binding it: Once({ F(v) : v \in {value} }).
Once(S) == CHOOSE y \in S : TRUE

\* Position of the lowest set bit from position i_ on (0 when there is none).
RECURSIVE LowBit(_, _)
LowBit(bits, i_) ==
    IF i_ > Len(bits) THEN 0 ELSE IF bits[i_] = 1 THEN i_ ELSE LowBit(bits, i_ + 1)

\* bits without the zeros above its highest set bit.
Trim(bits) == SubSeq(bits, 1, BitLength(bits))

\* The float of sign s and magnitude x.m * 2^x.e, the zeros below the lowest
\* set bit moved into the exponent.
CanonAt(s, x, low) ==
    IF low = 0 THEN FloatZero
    ELSE [s |-> s, m |-> SubSeq(x.m, low, BitLength(x.m)), e |-> x.e + low - 1]

Canon(s, x) == CanonAt(s, x, LowBit(x.m, 1))

\* The float of sign s nearest to bits * 2^e.
RoundedTo(s, bits, e) == Once({ Canon(s, x) : x \in {RoundFloat(bits, e)} })

\* float(n) of a small integer n.
FloatOfInt(n) ==
    IF n >= 0 THEN Once({ RoundedTo(0, bits, 0) : bits \in {IntBits(n)} })
    ELSE Once({ RoundedTo(1, bits, 0) : bits \in {IntBits(-n)} })

\* Bit j of a natural given as a bit sequence.
BitAt(a, j) == IF j <= Len(a) THEN a[j] ELSE 0

\* The distance from position j down to the nearest position below it where
\* the bits of a and b differ (same = 0) or agree (same = 1); j when there
\* is none.
Nearest(a, b, j, same) ==
    CHOOSE d \in 1..j :
       /\ d = j \/ (IF BitAt(a, j - d) = BitAt(b, j - d) THEN 1 ELSE 0) = same
       /\ \A g \in 1..(d - 1) : (IF BitAt(a, j - g) = BitAt(b, j - g) THEN 1 ELSE 0) # same

BitBelow(a, j, d) == IF d < j THEN BitAt(a, j - d) ELSE 0

\* The borrow into position j of a - b: the nearest position below j where
\* the bits differ has 0 in a and 1 in b.
BorrowInto(a, b, j) == BitBelow(b, j, Nearest(a, b, j, 0)) = 1

\* a >= b for two naturals as bit sequences: a - b borrows nothing from
\* above their highest position.
Ge(a, b) == ~BorrowInto(a, b, Max(Len(a), Len(b)) + 1)

\* a - b on bit sequences, for a >= b.
SubBits(a, b) ==
    [j \in 1..Len(a) |->
        (a[j] + 2 - BitAt(b, j) - (IF BorrowInto(a, b, j) THEN 1 ELSE 0)) % 2]

\* The carry into position j of a + b: the nearest position below j where
\* the bits agree has 1 in both.
CarryInto(a, b, j) == BitBelow(a, j, Nearest(a, b, j, 1)) = 1

\* a + b on bit sequences.
SumBits(a, b) ==
    [j \in 1..(Max(Len(a), Len(b)) + 1) |->
        (BitAt(a, j) + BitAt(b, j) + (IF CarryInto(a, b, j) THEN 1 ELSE 0)) % 2]

\* The significand of x moved down to the exponent e <= x.e.
AlignedTo(x, e) == IF x.m = << >> THEN << >> ELSE Zeros(x.e - e) \o x.m

\* The exact sum or difference of two aligned magnitudes, rounded.
AddAligned(sx, a, sy, b, e) ==
    IF sx = sy THEN Once({ RoundedTo(sx, bits, e) : bits \in {SumBits(a, b)} })
    ELSE IF Ge(a, b) THEN Once({ RoundedTo(sx, Trim(bits), e) : bits \in {SubBits(a, b)} })
    ELSE Once({ RoundedTo(sy, Trim(bits), e) : bits \in {SubBits(b, a)} })

AddAt(x, y, e) ==
    Once({ AddAligned(x.s, a, y.s, b, e) : a \in {AlignedTo(x, e)}, b \in {AlignedTo(y, e)} })

\* x + y in binary64.
FloatAdd(x, y) ==
    IF x.m = << >> THEN y
    ELSE IF y.m = << >> THEN x
    ELSE AddAt(x, y, Min(x.e, y.e))

FloatNeg(x) == IF x.m = << >> THEN x ELSE [x EXCEPT !.s = 1 - x.s]

\* The quotient bits of num by den, long division from bit i_ of num down to
\* bit lo + 1, with the remainder rem so far; q is the quotient, r the last
\* remainder.
RECURSIVE DivRange(_, _, _, _, _)
DivPush(rest, bit) == [q |-> Append(rest.q, bit), r |-> rest.r]

DivTake(num, den, i_, lo, r1, ge) ==
    IF ge
    THEN Once({ DivPush(rest, 1) :
                rest \in { DivRange(num, den, i_ - 1, lo, Trim(d)) :
                           d \in {SubBits(r1, den)} } })
    ELSE Once({ DivPush(rest, 0) : rest \in {DivRange(num, den, i_ - 1, lo, r1)} })

DivShift(num, den, i_, lo, r1) == DivTake(num, den, i_, lo, r1, Ge(r1, den))

DivRange(num, den, i_, lo, rem) ==
    IF i_ = lo THEN [q |-> << >>, r |-> rem]
    ELSE Once({ DivShift(num, den, i_, lo, Trim(r1)) : r1 \in {<<num[i_]>> \o rem} })

\* The long division from bit i_ of num down to bit 1, sixteen bits at a time.
RECURSIVE DivBits(_, _, _, _)
DivJoin(high, low) == [q |-> low.q \o high.q, r |-> low.r]

DivRest(num, den, lo, high) ==
    Once({ DivJoin(high, low) : low \in {DivBits(num, den, lo, high.r)} })

DivBits(num, den, i_, rem) ==
    IF i_ = 0 THEN [q |-> << >>, r |-> rem]
    ELSE Once({ DivRest(num, den, Max(i_ - 16, 0), high) :
                high \in {DivRange(num, den, i_, Max(i_ - 16, 0), rem)} })

\* The quotient with a sticky bit below it for a remainder that is not zero.
Sticky(d) == <<IF d.r = << >> THEN 0 ELSE 1>> \o d.q

\* The division starts with the top Len(den) - 1 bits of num as the remainder:
\* the quotient has no bit there.
DivFrom(num, den, h) ==
    DivBits(num, den, Len(num) - h, SubSeq(num, Len(num) - h + 1, Len(num)))

DivAt(s, x, y, p) ==
    Once({ RoundedTo(s, Sticky(d), x.e - y.e - p - 1) :
           d \in { DivFrom(num, y.m, Len(y.m) - 1) : num \in {Zeros(p) \o x.m} } })

\* x / y in binary64 for y # 0: the significand of x is extended by enough
\* zeros for a quotient of more than FloatMantissa + 2 bits.
FloatDiv(x, y) ==
    IF x.m = << >> THEN FloatZero
    ELSE DivAt(IF x.s = y.s THEN 0 ELSE 1, x, y,
               Max(0, FloatMantissa + 3 + Len(y.m) - Len(x.m)))

\* x <= 0.0
NotPositive(x) == x.m = << >> \/ x.s = 1

\* The keys of a dict in its order: the hours ascending, as engine.yml and the
\* dashboard write them.
RECURSIVE KeySeq(_)
KeySeq(S) ==
    IF S = {} THEN << >>
    ELSE LET lo == CHOOSE x \in S : \A y \in S : x <= y
         IN  <<lo>> \o KeySeq(S \ {lo})

\* sum(...) of the floats vals[j], ..., added one after the other to acc.
RECURSIVE FloatSumFrom(_, _, _)
FloatSumFrom(vals, j, acc) ==
    IF j > Len(vals) THEN acc
    ELSE Once({ FloatSumFrom(vals, j + 1, nxt) : nxt \in {FloatAdd(acc, vals[j])} })

ValuesInOrder(fdict, keys) == [j \in DOMAIN keys |-> fdict[keys[j]]]

\* sum(float(v) for v in wdict.values())
FloatSum(fdict) ==
    Once({ FloatSumFrom(vals, 1, FloatZero) :
           vals \in {ValuesInOrder(fdict, KeySeq(DOMAIN fdict))} })

UniformOf(x) == Once({ [h \in 0..23 |-> v] : v \in {x} })

\* normalize_weights with the keys of the input in place of the 24 hours
\* when the total is not positive.
NormalizedOverKeys(fdict, total) ==
    IF NotPositive(total)
    THEN Once({ [k_ \in DOMAIN fdict |-> x] : x \in {FloatDiv(FloatOfInt(1), FloatOfInt(24))} })
    ELSE [k_ \in DOMAIN fdict |-> FloatDiv(fdict[k_], total)]

\* normalize_weights that returns the weights as they are when the total
\* is positive.
NormalizedUnscaled(fdict, total) ==
    IF NotPositive(total) THEN UniformOf(FloatDiv(FloatOfInt(1), FloatOfInt(24)))
    ELSE fdict

\* The body of normalize_weights once the total is summed.
Normalized(fdict, total) ==
    IF NotPositive(total) THEN UniformOf(FloatDiv(FloatOfInt(1), FloatOfInt(24)))
    ELSE [k_ \in DOMAIN fdict |-> FloatDiv(fdict[k_], total)]

\* normalize_weights on binary64 values: fdict maps a key to float(v).
normalize_weights64(fdict) == Once({ Normalized(fdict, total) : total \in {FloatSum(fdict)} })

(***************************************************************************)
(* normalize_weights applied to a weight table, and again to its result     *)
(***************************************************************************)

\* Most keys of a weight table of the small tables (keys 0..n-1).
MaxKeys == 3

\* The number of times normalize_weights is applied in a row.
MaxPasses == 2

\* The weight tables: every table on at most MaxKeys keys with weights
\* 0..2, the four tables of the runs, a table of ten hours, tables with a
\* key that is no hour, and tables with negative weights, of a total below
\* 0, of the total 0 and of a total above 0.
WeightInputs ==
    UNION { [0..(n - 1) -> 0..2] : n \in 0..MaxKeys }
      \cup WeightTables
      \cup { [h \in 0..9 |-> 1], [h \in 0..23 |-> -1],
             [h \in {7, 40} |-> 0], [h \in {7, 40} |-> IF h = 7 THEN 1 ELSE -2],
             [h \in {7, 40} |-> IF h = 7 THEN 1 ELSE 2],
             <<-1>>, <<1, -1>>, <<-1, 2, -2>>, <<-1, 3, 1>> }

NormInit ==
    /\ seed \in GlobalSeeds
    /\ posts = << >>
    /\ \E w \in WeightInputs :
          engine = [(CHOOSE e \in Engines : TRUE) EXCEPT !.hourly_weights = w]
    /\ pc = "normalize"
    /\ tick = NoTick
    /\ weights_norm = << >>
    /\ out_open = FALSE
    /\ out = << >>
    /\ row_no = 0
    /\ i = 0
    /\ rng = ZeroSeedState
    /\ target = 0
    /\ cum = 0
    /\ t = 0
    /\ k = 0
    /\ summary = << >>
    /\ run = 1
    /\ prev = [posts |-> << >>, engine |-> engine, out |-> << >>, summary |-> << >>]

\* float(v) of every value of the table read from engine.yml.
FloatValues(wdict) == [k_ \in DOMAIN wdict |-> FloatOfInt(wdict[k_])]

\* normalize_weights is applied to the table, then to what it returned;
\* summary keeps the results in their order.
Normalize ==
    /\ pc = "normalize"
    /\ k < MaxPasses
    /\ \E res \in { normalize_weights64(IF k = 0 THEN FloatValues(engine.hourly_weights)
                                        ELSE weights_norm) } :
          /\ weights_norm' = res
          /\ summary' = Append(summary, res)
    /\ k' = k + 1
    /\ UNCHANGED <<seed, posts, engine, pc, tick, out_open, out, row_no, i, rng,
                   target, cum, t, run, prev>>

NormSpec == NormInit /\ [][Normalize]_vars

\* The binary64 value nearest to 1/24: 0x15555555555555 * 2^-57.
OneTwentyFourth == [s |-> 0, m |-> [j \in 1..FloatMantissa |-> j % 2], e |-> -57]

\* The values of the table sum to 0 or less.
TotalNotPositive == SumWeights(engine.hourly_weights, DOMAIN engine.hourly_weights) <= 0

\* C22: normalize_weights of a table whose values sum to 0 or less returns
\* exactly the 24 keys 0..23, each with the float 1/24, whatever the keys of
\* the table were.
C22_NotPositiveSumGivesUniform ==
    (pc = "normalize" /\ k >= 1 /\ TotalNotPositive)
        => summary[1] = [h \in 0..23 |-> OneTwentyFourth]

\* A table with a negative total and a key that is no hour was normalized.
C22_Witness ==
    /\ pc = "normalize"
    /\ k = 1
    /\ 40 \in DOMAIN engine.hourly_weights
    /\ SumWeights(engine.hourly_weights, DOMAIN engine.hourly_weights) < 0
    /\ DOMAIN weights_norm = 0..23

FloatOne == FloatOfInt(1)

\* |x - y| is below 2^-46.
Within(d) == d.m = << >> \/ d.e + Len(d.m) <= -46

Close(x, y) == \E d \in {FloatAdd(x, FloatNeg(y))} : Within(d)

NonNegativeWeights == \A h \in DOMAIN engine.hourly_weights : engine.hourly_weights[h] >= 0

\* C23 as stated: the second normalization returns exactly what the first
\* returned, and a table of positive sum keeps its keys with values whose sum
\* is exactly 1.
C23_IdempotentExactly ==
    pc = "normalize" =>
        /\ k >= 2 => summary[2] = summary[1]
        /\ (k >= 1 /\ ~TotalNotPositive)
              => /\ DOMAIN summary[1] = DOMAIN engine.hourly_weights
                 /\ FloatSum(summary[1]) = FloatOne

\* C23, amended: for a table of non-negative weights, or one whose values sum
\* to 0 or less, the second normalization returns the keys of the first with
\* values less than 2^-46 away from it, and a table of positive sum keeps its
\* keys with values whose sum is less than 2^-46 away from 1.
C23_IdempotentWithinTolerance ==
    (pc = "normalize" /\ (NonNegativeWeights \/ TotalNotPositive)) =>
        /\ k >= 2 => /\ DOMAIN summary[2] = DOMAIN summary[1]
                     /\ \A h \in DOMAIN summary[1] : Close(summary[2][h], summary[1][h])
        /\ (k >= 1 /\ ~TotalNotPositive)
              => /\ DOMAIN summary[1] = DOMAIN engine.hourly_weights
                 /\ Close(FloatSum(summary[1]), FloatOne)

\* The uniform table of 24 ones was normalized twice, and the second result
\* is not the first.
C23_Witness ==
    /\ pc = "normalize"
    /\ k = 2
    /\ engine.hourly_weights = UniformWeights
    /\ summary[2] # summary[1]
    /\ FloatSum(summary[1]) # FloatOne

====
